---- MODULE Spec2Model ----
(***************************************************************************)
(* Model of the humanization engine of app.py: apply_statistical_humanize, *)
(* apply_gemini_humanize and process_midi.                                 *)
(*                                                                         *)
(* Units.  Times are integers counting 0.01 s, so the 0.1 s floor of line  *)
(* 30 is MinDur = 10.  Velocity noise is a real number in the code; it is  *)
(* carried in halves (noise2 = 2 * noise) so that the truncation of int()  *)
(* on line 24 is computed and not assumed.  The std parameters are carried *)
(* in tenths (0.3 -> 3, 0.1 -> 1).  Progress fractions are exact pairs     *)
(* <<numerator, denominator>>.                                             *)
(***************************************************************************)
EXTENDS Integers, Sequences, FiniteSets, TLC

VARIABLES
    tracks,      \* pm.instruments: sequence of [name, is_drum, notes]
    orig,        \* the decoded performance as it was before process_midi ran
    decodable,   \* whether pretty_midi.PrettyMIDI(bytes) succeeds
    mode,        \* "Statistical" or "Gemini"
    vel_std,     \* vel_std argument of process_midi, in tenths
    time_std,    \* time_std argument of process_midi, in tenths
    api_key,     \* api_key argument, a sequence of characters
    selected,    \* selected_instruments, the set of chosen track names
    pc,          \* position of process_midi: start, gemini, stat, done
    target,      \* target_instruments, as indices into tracks
    inst_idx,    \* 0-based index into target of the track being processed
    pos,         \* 0-based chunk index i (Gemini) or note index (Statistical)
    processed,   \* processed_notes of the statistical loop
    resp,        \* outcome of the last model.generate_content call
    calls,       \* per note: the (vel_std, time_std) of every statistical call
    events,      \* what was sent to st.progress/warning/error, the API, sleep
    result       \* return value of process_midi: "pending", "None" or "pm"

vars == <<tracks, orig, decodable, mode, vel_std, time_std, api_key, selected,
          pc, target, inst_idx, pos, processed, resp, calls, events, result>>

----------------------------------------------------------------------------
(* Bounds of the model *)

\* chunk_size of line 58 is 300; the model scales it down
ChunkSize == 2
\* most notes in the first track
MaxNotes == 3
\* most notes in each of the other tracks
MaxOther == 1

(* Program constants *)
MinDur == 10
HighPitch == 72
PitchBias == 3
MinVel == 1
MaxVel == 127
FallbackVelStd == 3
FallbackTimeStd == 1
ProgressEvery == 100

Min(a, b) == IF a < b THEN a ELSE b
Max(a, b) == IF a > b THEN a ELSE b

----------------------------------------------------------------------------
(* apply_statistical_humanize, lines 20-32 *)

\* int() of a value given in halves: truncation toward zero
IntOfHalves(x2) == IF x2 >= 0 THEN x2 \div 2 ELSE -((-x2) \div 2)

Clamp(v) == Max(MinVel, Min(MaxVel, v))

\* random.gauss(0, sigma): exactly 0 when sigma is 0, any draw otherwise
Gauss(std, draws) == IF std = 0 THEN {0} ELSE draws

\* variant: the end follows the noise without the minimum-duration floor
ApplyStatisticalHumanizeNoFloor(note, velocity_noise2, timing_noise) ==
    LET pitch_bias   == IF note.pitch > HighPitch THEN PitchBias ELSE 0
        new_velocity == IntOfHalves(2 * note.velocity + velocity_noise2
                                    + 2 * pitch_bias)
        new_start    == Max(0, note.start + timing_noise)
        new_end      == note.end + timing_noise
    IN [pitch    |-> note.pitch,
        velocity |-> Clamp(new_velocity),
        start    |-> new_start,
        end      |-> new_end]

\* variant: the pitch bias already applies at pitch 72
ApplyStatisticalHumanizeBiasAt72(note, velocity_noise2, timing_noise) ==
    LET pitch_bias   == IF note.pitch >= HighPitch THEN PitchBias ELSE 0
        new_velocity == IntOfHalves(2 * note.velocity + velocity_noise2
                                    + 2 * pitch_bias)
        new_start    == Max(0, note.start + timing_noise)
        new_end      == Max(new_start + MinDur, note.end + timing_noise)
    IN [pitch    |-> note.pitch,
        velocity |-> Clamp(new_velocity),
        start    |-> new_start,
        end      |-> new_end]

ApplyStatisticalHumanize(note, velocity_noise2, timing_noise) ==
    LET pitch_bias   == IF note.pitch > HighPitch THEN PitchBias ELSE 0
        new_velocity == IntOfHalves(2 * note.velocity + velocity_noise2
                                    + 2 * pitch_bias)
        new_start    == Max(0, note.start + timing_noise)
        new_end      == Max(new_start + MinDur, note.end + timing_noise)
    IN [pitch    |-> note.pitch,
        velocity |-> Clamp(new_velocity),
        start    |-> new_start,
        end      |-> new_end]

\* draws of the velocity noise (in halves) and of the timing noise that the
\* orchestration model explores: velocity pushed below 1 or slightly up,
\* timing pushed before 0 so that the start clamp and the duration floor act
VelNoiseSet == {-600, 5}
TimeNoiseSet == {-1000}

\* draws explored when the humanizer itself is under study
WideVelNoiseSet == {-600, -7, -1, 0, 1, 7, 600}
WideTimeNoiseSet == {-1000, -6, 0, 4, 1000}

----------------------------------------------------------------------------
(* Chunking, line 59 *)

\* variant: the range stops before a trailing partial chunk
ChunksDropPartial(notes) ==
    [k \in 1..(Len(notes) \div ChunkSize) |->
        SubSeq(notes, (k - 1) * ChunkSize + 1, k * ChunkSize)]

Chunks(notes) ==
    [k \in 1..((Len(notes) + ChunkSize - 1) \div ChunkSize) |->
        SubSeq(notes, (k - 1) * ChunkSize + 1,
               Min(k * ChunkSize, Len(notes)))]

NumChunks(notes) == Len(Chunks(notes))

\* index in the track's note list of element j (1-based) of chunk i (0-based)
NoteIndex(i, j) == i * ChunkSize + j

RECURSIVE Concat(_)
Concat(ss) == IF ss = <<>> THEN <<>> ELSE Head(ss) \o Concat(Tail(ss))

----------------------------------------------------------------------------
(* Response parsing, lines 87-89; text is a sequence of characters *)

Whitespace == {" ", "\n", "\t"}
DecimalChars == {"0", "1", "2", "3", "4", "5", "6", "7", "8", "9"}
\* str.isdigit() also accepts digits that int() rejects, such as superscripts
DigitChars == DecimalChars \cup {"^2"}

RECURSIVE LStrip(_)
LStrip(s) == IF s # <<>> /\ Head(s) \in Whitespace THEN LStrip(Tail(s)) ELSE s

RECURSIVE RStrip(_)
RStrip(s) == IF s # <<>> /\ s[Len(s)] \in Whitespace
             THEN RStrip(SubSeq(s, 1, Len(s) - 1)) ELSE s

Strip(s) == RStrip(LStrip(s))

RECURSIVE Remove(_, _)
Remove(s, c) == IF s = <<>> THEN <<>>
                ELSE IF Head(s) = c THEN Remove(Tail(s), c)
                ELSE <<Head(s)>> \o Remove(Tail(s), c)

Replace(s, c, d) == [k \in 1..Len(s) |-> IF s[k] = c THEN d ELSE s[k]]

\* s.split(','): always at least one token
RECURSIVE SplitAcc(_, _)
SplitAcc(s, cur) == IF s = <<>> THEN <<cur>>
                    ELSE IF Head(s) = "," THEN <<cur>> \o SplitAcc(Tail(s), <<>>)
                    ELSE SplitAcc(Tail(s), Append(cur, Head(s)))

Split(s) == SplitAcc(s, <<>>)

IsDigit(tok) == tok # <<>> /\ \A k \in 1..Len(tok) : tok[k] \in DigitChars

DigitVal(c) == CASE c = "0" -> 0 [] c = "1" -> 1 [] c = "2" -> 2
                 [] c = "3" -> 3 [] c = "4" -> 4 [] c = "5" -> 5
                 [] c = "6" -> 6 [] c = "7" -> 7 [] c = "8" -> 8
                 [] c = "9" -> 9

\* int(tok) raises ValueError on a character that is not a decimal digit
IntRaises(tok) == \E k \in 1..Len(tok) : tok[k] \notin DecimalChars

RECURSIVE IntOf(_)
IntOf(tok) == IF tok = <<>> THEN 0
              ELSE 10 * IntOf(SubSeq(tok, 1, Len(tok) - 1))
                   + DigitVal(tok[Len(tok)])

CleanText(text) ==
    Replace(Remove(Remove(Strip(text), "["), "]"), "\n", " ")

\* the tokens kept by the filter of line 89
KeptTokens(text) ==
    LET toks == Split(CleanText(text))
    IN SelectSeq([k \in 1..Len(toks) |-> Strip(toks[k])], IsDigit)

ParseRaises(text) ==
    \E k \in 1..Len(KeptTokens(text)) : IntRaises(KeptTokens(text)[k])

ParseVelocities(text) ==
    LET kept == KeptTokens(text)
    IN [k \in 1..Len(kept) |-> IntOf(kept[k])]

----------------------------------------------------------------------------
(* Sinks and the performance *)

Ev(type, track, chunk, val) ==
    [type |-> type, track |-> track, chunk |-> chunk, val |-> val]

One == <<1, 1>>
Zero == <<0, 1>>

\* min(current_progress, 1.0) of line 98, on exact fractions
ClampProgress(num, den) == IF num > den THEN One ELSE <<num, den>>

Names == <<"Piano", "Drums", "Lead">>
IsDrum == <<FALSE, TRUE, FALSE>>

NoteMenu ==
    << [pitch |-> 60, velocity |-> 64,  start |-> 0,   end |-> 50],
       [pitch |-> 84, velocity |-> 126, start |-> 50,  end |-> 55],
       [pitch |-> 72, velocity |-> 1,   start |-> 100, end |-> 200],
       [pitch |-> 73, velocity |-> 100, start |-> 200, end |-> 230] >>

MenuNotes(t, n) == [j \in 1..n |-> NoteMenu[((t + j - 2) % Len(NoteMenu)) + 1]]

Track(t, notes) == [name |-> Names[t], is_drum |-> IsDrum[t], notes |-> notes]

\* the texts model.generate_content may answer with
Responses ==
    { <<"[", "9", "0", ",", " ", "0", "]", "\n">>,
      <<"2", "0", "0">>,
      <<"5", ",", "6", ",", "7", ",", "8">>,
      <<"x", ",", " ", "7", "0">>,
      <<>>,
      <<"^2">> }

KeySet == { <<>>, <<" ", "k">> }

NoCalls(trk) == [t \in 1..Len(trk) |-> [n \in 1..Len(trk[t].notes) |-> <<>>]]

NoResp == [kind |-> "none", text |-> <<>>]

\* the inputs of one process_midi call, as the UI hands them over
Inputs ==
    /\ mode \in {"Statistical", "Gemini"}
    /\ IF mode = "Gemini"
       THEN vel_std = 0 /\ time_std = 0 /\ api_key \in KeySet
       ELSE vel_std \in {0, 5} /\ time_std \in {0, 3} /\ api_key = <<>>
    /\ selected \in SUBSET {Names[t] : t \in 1..Len(Names)}

Fresh ==
    /\ orig = tracks
    /\ pc = "start"
    /\ target = <<>>
    /\ inst_idx = 0
    /\ pos = 0
    /\ processed = 0
    /\ resp = NoResp
    /\ calls = NoCalls(tracks)
    /\ events = <<>>
    /\ result = "pending"

Init ==
    /\ \/ /\ decodable = TRUE
          /\ \E c1 \in 0..MaxNotes, c2 \in 0..MaxOther, c3 \in 0..MaxOther :
                tracks = << Track(1, MenuNotes(1, c1)),
                            Track(2, MenuNotes(2, c2)),
                            Track(3, MenuNotes(3, c3)) >>
       \/ /\ decodable = FALSE
          /\ tracks = <<>>
    /\ Inputs
    /\ Fresh

----------------------------------------------------------------------------
(* process_midi, lines 112-145, and apply_gemini_humanize, lines 35-109 *)

\* [inst for inst in pm.instruments if inst.name in selected_instruments]
TargetInstruments(trk, sel) ==
    SelectSeq([t \in 1..Len(trk) |-> t], LAMBDA t : trk[t].name \in sel)

ProcessMidiDecodeError ==
    /\ pc = "start"
    /\ ~decodable
    /\ events' = Append(events, Ev("error", 0, 0, Zero))
    /\ result' = "None"
    /\ pc' = "done"
    /\ UNCHANGED <<tracks, orig, decodable, mode, vel_std, time_std, api_key,
                   selected, target, inst_idx, pos, processed, resp, calls>>

\* variant: the error is reported but the early return is missing
ProcessMidiNoKeyNoReturn ==
    /\ pc = "start"
    /\ decodable
    /\ mode = "Gemini"
    /\ api_key = <<>>
    /\ events' = events \o << Ev("bar", 0, 0, Zero), Ev("error", 0, 0, Zero) >>
    /\ result' = "pm"
    /\ pc' = "done"
    /\ UNCHANGED <<tracks, orig, decodable, mode, vel_std, time_std, api_key,
                   selected, target, inst_idx, pos, processed, resp, calls>>

ProcessMidiNoKey ==
    /\ pc = "start"
    /\ decodable
    /\ mode = "Gemini"
    /\ api_key = <<>>
    /\ events' = events \o << Ev("bar", 0, 0, Zero), Ev("error", 0, 0, Zero) >>
    /\ result' = "None"
    /\ pc' = "done"
    /\ UNCHANGED <<tracks, orig, decodable, mode, vel_std, time_std, api_key,
                   selected, target, inst_idx, pos, processed, resp, calls>>

\* first 0-based index >= k of tgt whose track yields a chunk, else Len(tgt)
RECURSIVE NextInst(_, _, _)
NextInst(trk, tgt, k) ==
    IF k >= Len(tgt) THEN Len(tgt)
    ELSE IF NumChunks(trk[tgt[k + 1]].notes) > 0 THEN k
    ELSE NextInst(trk, tgt, k + 1)

\* status_text.text of line 62 for the instruments a..b (0-based) of tgt
StatusEvents(tgt, a, b) ==
    [j \in 1..(b - a + 1) |-> Ev("status", tgt[a + j], 0, Zero)]

\* the outer loop moves on from instrument k - 1: the instruments it enters,
\* and the return of line 108-109 when none is left
GeminiEnter(tgt, k, evs) ==
    LET nk == NextInst(tracks, tgt, k)
        ev2 == evs \o StatusEvents(tgt, k, Min(nk, Len(tgt) - 1))
    IN IF nk = Len(tgt)
       THEN /\ events' = Append(ev2, Ev("status_done", 0, 0, Zero))
            /\ result' = "pm"
            /\ pc' = "done"
            /\ inst_idx' = inst_idx
            /\ pos' = pos
       ELSE /\ events' = ev2
            /\ result' = result
            /\ pc' = "gemini"
            /\ inst_idx' = nk
            /\ pos' = 0

GeminiNoTargets ==
    /\ pc = "start"
    /\ decodable
    /\ mode = "Gemini"
    /\ api_key # <<>>
    /\ TargetInstruments(tracks, selected) = <<>>
    /\ events' = events \o << Ev("bar", 0, 0, Zero),
                              Ev("no_target_warning", 0, 0, Zero) >>
    /\ result' = "pm"
    /\ pc' = "done"
    /\ UNCHANGED <<tracks, orig, decodable, mode, vel_std, time_std, api_key,
                   selected, target, inst_idx, pos, processed, resp, calls>>

GeminiBegin ==
    /\ pc = "start"
    /\ decodable
    /\ mode = "Gemini"
    /\ api_key # <<>>
    /\ TargetInstruments(tracks, selected) # <<>>
    /\ target' = TargetInstruments(tracks, selected)
    /\ GeminiEnter(target', 0, Append(events, Ev("bar", 0, 0, Zero)))
    /\ UNCHANGED <<tracks, orig, decodable, mode, vel_std, time_std, api_key,
                   selected, processed, resp, calls>>

\* after chunk i of instrument inst_idx: the next chunk, track, or the return
GeminiAdvance(evs) ==
    IF pos + 1 < NumChunks(tracks[target[inst_idx + 1]].notes)
    THEN /\ events' = evs
         /\ pos' = pos + 1
         /\ UNCHANGED <<inst_idx, pc, result>>
    ELSE GeminiEnter(target, inst_idx + 1, evs)

\* variant: the parsed velocity is stored without the clamp
ApplyVelocitiesNoClamp(notes, i, velocities) ==
    LET lo == NoteIndex(i, 1)
        hi == Min(NoteIndex(i, ChunkSize), Len(notes))
    IN [n \in 1..Len(notes) |->
          IF n >= lo /\ n <= hi /\ n - lo + 1 <= Len(velocities)
          THEN [notes[n] EXCEPT !.velocity = velocities[n - lo + 1]]
          ELSE notes[n]]

\* lines 92-94: velocities applied positionally to the chunk
ApplyVelocities(notes, i, velocities) ==
    LET lo == NoteIndex(i, 1)
        hi == Min(NoteIndex(i, ChunkSize), Len(notes))
    IN [n \in 1..Len(notes) |->
          IF n >= lo /\ n <= hi /\ n - lo + 1 <= Len(velocities)
          THEN [notes[n] EXCEPT !.velocity = Clamp(velocities[n - lo + 1])]
          ELSE notes[n]]

\* line 97
CurrentProgress(k, i, total_chunks, total_instruments) ==
    ClampProgress(k * total_chunks + (i + 1), total_chunks * total_instruments)

GeminiChunkSuccess ==
    /\ pc = "gemini"
    /\ LET t == target[inst_idx + 1]
       IN \E text \in Responses :
            /\ ~ParseRaises(text)
            /\ resp' = [kind |-> "text", text |-> text]
            /\ tracks' = [tracks EXCEPT ![t].notes =
                            ApplyVelocities(@, pos, ParseVelocities(text))]
            /\ GeminiAdvance(events \o
                 << Ev("request", t, pos + 1, Zero),
                    Ev("progress", t, pos + 1,
                       CurrentProgress(inst_idx, pos,
                                       NumChunks(tracks[t].notes), Len(target))),
                    Ev("sleep", t, pos + 1, Zero) >>)
    /\ UNCHANGED <<orig, decodable, mode, vel_std, time_std, api_key, selected,
                   target, processed, calls>>

\* lines 105-106: the statistical humanizer on every note of chunk i
Fallback(notes, i, vn, tn) ==
    LET lo == NoteIndex(i, 1)
        hi == Min(NoteIndex(i, ChunkSize), Len(notes))
    IN [n \in 1..Len(notes) |->
          IF n >= lo /\ n <= hi
          THEN ApplyStatisticalHumanize(notes[n], vn[n - lo + 1], tn[n - lo + 1])
          ELSE notes[n]]

FallbackCalls(cs, i, vs, ts) ==
    LET lo == NoteIndex(i, 1)
        hi == Min(NoteIndex(i, ChunkSize), Len(cs))
    IN [n \in 1..Len(cs) |->
          IF n >= lo /\ n <= hi THEN Append(cs[n], <<vs, ts>>) ELSE cs[n]]

\* what can go wrong inside the try block of lines 82-100
FailureOutcomes ==
    { [kind |-> "raise", text |-> <<>>], [kind |-> "notext", text |-> <<>>] }
    \cup { [kind |-> "text", text |-> text] :
             text \in {r \in Responses : ParseRaises(r)} }

\* variant: no except clause, the failure ends the run
GeminiChunkFailurePropagates ==
    /\ pc = "gemini"
    /\ \E outcome \in FailureOutcomes : resp' = outcome
    /\ events' = Append(events, Ev("request", target[inst_idx + 1], pos + 1, Zero))
    /\ pc' = "done"
    /\ result' = "raised"
    /\ UNCHANGED <<tracks, orig, decodable, mode, vel_std, time_std, api_key,
                   selected, target, inst_idx, pos, processed, calls>>

GeminiChunkFailure ==
    /\ pc = "gemini"
    /\ LET t   == target[inst_idx + 1]
           len == Len(Chunks(tracks[t].notes)[pos + 1])
       IN /\ \E outcome \in FailureOutcomes : resp' = outcome
          /\ \E vn \in [1..len -> Gauss(FallbackVelStd * 20, VelNoiseSet)],
                tn \in [1..len -> Gauss(FallbackTimeStd * 5, TimeNoiseSet)] :
                tracks' = [tracks EXCEPT ![t].notes = Fallback(@, pos, vn, tn)]
          /\ calls' = [calls EXCEPT ![t] =
                         FallbackCalls(@, pos, FallbackVelStd, FallbackTimeStd)]
          /\ GeminiAdvance(events \o
               << Ev("request", t, pos + 1, Zero),
                  Ev("warning", t, pos + 1, Zero) >>)
    /\ UNCHANGED <<orig, decodable, mode, vel_std, time_std, api_key, selected,
                   target, processed>>

----------------------------------------------------------------------------
(* Statistical mode, lines 129-143 *)

\* sum([len(i.notes) for i in target_instruments])
RECURSIVE TotalNotes(_, _)
TotalNotes(trk, tgt) ==
    IF tgt = <<>> THEN 0
    ELSE Len(trk[Head(tgt)].notes) + TotalNotes(trk, Tail(tgt))

\* first 0-based index >= k of tgt that is no drum track and has a note
RECURSIVE NextStat(_, _, _)
NextStat(trk, tgt, k) ==
    IF k >= Len(tgt) THEN Len(tgt)
    ELSE IF ~trk[tgt[k + 1]].is_drum /\ Len(trk[tgt[k + 1]].notes) > 0 THEN k
    ELSE NextStat(trk, tgt, k + 1)

\* the loop of line 136 moves on to instrument k; line 143-145 when none is left
StatEnter(tgt, k, evs) ==
    LET nk == NextStat(tracks, tgt, k)
    IN IF nk = Len(tgt)
       THEN /\ events' = Append(evs, Ev("progress", 0, 0, One))
            /\ result' = "pm"
            /\ pc' = "done"
            /\ inst_idx' = inst_idx
            /\ pos' = pos
       ELSE /\ events' = evs
            /\ result' = result
            /\ pc' = "stat"
            /\ inst_idx' = nk
            /\ pos' = 0

StatBegin ==
    /\ pc = "start"
    /\ decodable
    /\ mode # "Gemini"
    /\ target' = TargetInstruments(tracks, selected)
    /\ StatEnter(target', 0, Append(events, Ev("bar", 0, 0, Zero)))
    /\ UNCHANGED <<tracks, orig, decodable, mode, vel_std, time_std, api_key,
                   selected, processed, resp, calls>>

\* one iteration of the loop of lines 138-142
StatNoteWith(vel_draws, time_draws) ==
    /\ LET t     == target[inst_idx + 1]
           n     == pos + 1
           total == TotalNotes(tracks, target)
           evs   == IF total > 0 /\ (processed + 1) % ProgressEvery = 0
                    THEN Append(events,
                                Ev("progress", t, 0, <<processed + 1, total>>))
                    ELSE events
       IN /\ \E vn \in Gauss(vel_std * 20, vel_draws),
                tn \in Gauss(time_std * 5, time_draws) :
                tracks' = [tracks EXCEPT ![t].notes[n] =
                             ApplyStatisticalHumanize(@, vn, tn)]
          /\ calls' = [calls EXCEPT ![t][n] = Append(@, <<vel_std, time_std>>)]
          /\ processed' = processed + 1
          /\ IF n < Len(tracks[t].notes)
             THEN /\ events' = evs
                  /\ pos' = pos + 1
                  /\ UNCHANGED <<inst_idx, pc, result>>
             ELSE StatEnter(target, inst_idx + 1, evs)
    /\ UNCHANGED <<orig, decodable, mode, vel_std, time_std, api_key, selected,
                   target, resp>>

StatNote ==
    /\ pc = "stat"
    /\ StatNoteWith(VelNoiseSet, TimeNoiseSet)

\* the same iteration, with the wider range of draws
StatNoteWide ==
    /\ pc = "stat"
    /\ StatNoteWith(WideVelNoiseSet, WideTimeNoiseSet)

----------------------------------------------------------------------------
(* Specifications *)

Next ==
    \/ ProcessMidiDecodeError
    \/ ProcessMidiNoKey
    \/ GeminiNoTargets
    \/ GeminiBegin
    \/ GeminiChunkSuccess
    \/ GeminiChunkFailure
    \/ StatBegin
    \/ StatNote

Spec == Init /\ [][Next]_vars

\* the single melodic note the humanizer is studied on
NotePitches == {0, 72, 73, 127}
NoteVelocities == {1, 64, 124, 125, 127}
NoteStarts == {0, 3, 500}
NoteDurations == {1, 9, 10, 40}

InitStat ==
    /\ \/ /\ decodable = TRUE
          /\ \E p \in NotePitches, v \in NoteVelocities, s \in NoteStarts,
                d \in NoteDurations, c2 \in 0..MaxOther :
                tracks = << Track(1, << [pitch |-> p, velocity |-> v,
                                         start |-> s, end |-> s + d] >>),
                            Track(2, MenuNotes(2, c2)) >>
       \/ /\ decodable = FALSE
          /\ tracks = <<>>
    /\ mode = "Statistical"
    /\ vel_std \in {0, 5}
    /\ time_std \in {0, 3}
    /\ api_key = <<>>
    /\ selected \in SUBSET {"Piano", "Drums"}
    /\ Fresh

NextStatOnly ==
    \/ ProcessMidiDecodeError
    \/ StatBegin
    \/ StatNoteWide

SpecStat == InitStat /\ [][NextStatOnly]_vars

----------------------------------------------------------------------------
(* Properties *)

EventsOfType(type) == SelectSeq(events, LAMBDA e : e.type = type)

CountAt(type, t, c) ==
    Len(SelectSeq(events, LAMBDA e : e.type = type /\ e.track = t /\ e.chunk = c))

NoteIds ==
    UNION { {<<t, n>> : n \in 1..Len(tracks[t].notes)} : t \in 1..Len(tracks) }

InRange(note) ==
    /\ note.velocity \in MinVel..MaxVel
    /\ note.start >= 0
    /\ note.end - note.start >= MinDur

\* C1: drum tracks are never humanized: in every state of every run, in both
\* modes and for every selection, the notes of every track with is_drum are
\* as they were before the call, and no generation request names a drum track.
C1_DrumsExcluded ==
    \A t \in 1..Len(tracks) :
        tracks[t].is_drum =>
            /\ tracks[t].notes = orig[t].notes
            /\ \A k \in 1..Len(events) :
                  events[k].type = "request" => events[k].track # t

C5_EmptyKeyAborts ==
    (decodable /\ mode = "Gemini" /\ api_key = <<>> /\ pc = "done") =>
        /\ result = "None"
        /\ EventsOfType("error") # <<>>
        /\ EventsOfType("request") = <<>>
        /\ EventsOfType("warning") = <<>>
        /\ EventsOfType("sleep") = <<>>
        /\ tracks = orig
        /\ calls = NoCalls(tracks)

C5_Witness ==
    /\ decodable /\ mode = "Gemini" /\ api_key = <<>> /\ pc = "done"
    /\ result = "None"
    /\ selected = {"Piano", "Drums", "Lead"}
    /\ Len(tracks[1].notes) = MaxNotes

\* what the zero-noise statistical run is claimed to leave of a melodic note
BiasOnly(note) ==
    [note EXCEPT !.velocity = IF note.pitch > HighPitch
                              THEN note.velocity + PitchBias
                              ELSE note.velocity]

\* what it leaves: the bias is clamped and the duration floor still applies
BiasClampedFloored(note) ==
    [note EXCEPT !.velocity = IF note.pitch > HighPitch
                              THEN Min(MaxVel, note.velocity + PitchBias)
                              ELSE note.velocity,
                 !.end = Max(note.end, note.start + MinDur)]

ZeroNoiseRunDone ==
    /\ pc = "done" /\ result = "pm" /\ mode = "Statistical"
    /\ vel_std = 0 /\ time_std = 0
    /\ "Piano" \in selected

\* C6 as stated: after a Statistical run with both parameters 0 the drum track
\* is identical and every selected melodic note keeps pitch, start and end and
\* has velocity + 3 when pitch > 72, its velocity otherwise.
C6_Original ==
    ZeroNoiseRunDone =>
        \A t \in 1..Len(tracks) :
            IF tracks[t].is_drum
            THEN tracks[t].notes = orig[t].notes
            ELSE \A n \in 1..Len(tracks[t].notes) :
                    tracks[t].notes[n] = BiasOnly(orig[t].notes[n])

\* C6 amended: after a Statistical run with both parameters 0 the drum track
\* is identical and every selected melodic note keeps pitch and start, has
\* velocity min(127, velocity + 3) when pitch > 72 and its velocity otherwise,
\* and has end max(end, start + 0.1 s).
C6_ZeroNoiseEndToEnd ==
    ZeroNoiseRunDone =>
        \A t \in 1..Len(tracks) :
            IF tracks[t].is_drum
            THEN tracks[t].notes = orig[t].notes
            ELSE \A n \in 1..Len(tracks[t].notes) :
                    tracks[t].notes[n] = BiasClampedFloored(orig[t].notes[n])

\* a high, loud, short melodic note next to a selected drum track with a note
C6_Witness ==
    /\ ZeroNoiseRunDone
    /\ "Drums" \in selected
    /\ tracks[2].notes # <<>>
    /\ orig[1].notes[1].pitch > HighPitch
    /\ orig[1].notes[1].velocity + PitchBias > MaxVel
    /\ orig[1].notes[1].end - orig[1].notes[1].start < MinDur
    /\ tracks[1].notes[1].velocity = MaxVel

\* C7: the chunks of every track concatenate to its note sequence, each chunk
\* has between 1 and chunk_size notes, every chunk but the last has exactly
\* chunk_size, a track without notes has no chunk and gets no generation
\* request, and the progress computation never divides by zero.
C7_Chunking ==
    /\ \A t \in 1..Len(tracks) :
          LET notes == tracks[t].notes
              cs    == Chunks(notes)
          IN /\ Concat(cs) = notes
             /\ \A k \in 1..Len(cs) :
                   /\ Len(cs[k]) >= 1
                   /\ Len(cs[k]) <= ChunkSize
                   /\ k < Len(cs) => Len(cs[k]) = ChunkSize
             /\ notes = <<>> => cs = <<>>
             /\ \A k \in 1..Len(events) :
                   (events[k].type = "request" /\ events[k].track = t) =>
                       events[k].chunk \in 1..Len(cs)
    /\ \A k \in 1..Len(events) :
          events[k].type = "progress" => events[k].val[2] > 0

\* a finished Gemini run over a track with a full and a partial chunk and a
\* track without notes
C7_Witness ==
    /\ pc = "done" /\ mode = "Gemini" /\ result = "pm"
    /\ selected = {"Piano", "Lead"}
    /\ Len(tracks[1].notes) = ChunkSize + 1
    /\ tracks[3].notes = <<>>
    /\ Len(EventsOfType("request")) = 2

\* 1-based number of the chunk that holds note n
ChunkOf(n) == ((n - 1) \div ChunkSize) + 1

\* <<k, t, c>> for every chunk c (1-based) of every instrument k (0-based
\* index into tgt, track t), in processing order
RECURSIVE AllChunksFrom(_, _)
AllChunksFrom(tgt, k) ==
    IF k >= Len(tgt) THEN <<>>
    ELSE [c \in 1..NumChunks(tracks[tgt[k + 1]].notes) |-> <<k, tgt[k + 1], c>>]
         \o AllChunksFrom(tgt, k + 1)

AllChunks == AllChunksFrom(target, 0)

WarningsIn(evs) == SelectSeq(evs, LAMBDA e : e.type = "warning")

Failed(r) ==
    \/ r.kind \in {"raise", "notext"}
    \/ r.kind = "text" /\ ParseRaises(r.text)

GeminiRunDone ==
    mode = "Gemini" /\ pc = "done" /\ result = "pm" /\ target # <<>>

C3_StateInv ==
    mode = "Gemini" =>
        /\ \A id \in NoteIds :
              LET t == id[1]
                  c == ChunkOf(id[2])
              IN /\ CountAt("warning", t, c) <= 1
                 /\ CountAt("request", t, c)
                      = CountAt("warning", t, c) + CountAt("sleep", t, c)
                 /\ calls[t][id[2]] =
                      [k \in 1..CountAt("warning", t, c) |->
                          <<FallbackVelStd, FallbackTimeStd>>]
                 /\ calls[t][id[2]] # <<>> => InRange(tracks[t].notes[id[2]])
        /\ GeminiRunDone =>
              /\ Len(EventsOfType("request")) = Len(AllChunks)
              /\ \A k \in 1..Len(AllChunks) :
                    /\ EventsOfType("request")[k].track = AllChunks[k][2]
                    /\ EventsOfType("request")[k].chunk = AllChunks[k][3]
        /\ (GeminiRunDone /\ EventsOfType("sleep") = <<>>) =>
              /\ Len(EventsOfType("warning")) = Len(AllChunks)
              /\ \A k \in 1..Len(target) :
                    \A n \in 1..Len(tracks[target[k]].notes) :
                        InRange(tracks[target[k]].notes[n])

C3_StepProp ==
    (pc = "gemini" /\ Failed(resp')) =>
        /\ WarningsIn(events') =
              Append(WarningsIn(events),
                     Ev("warning", target[inst_idx + 1], pos + 1, Zero))
        /\ pc' \in {"gemini", "done"}
        /\ pc' = "done" => result' = "pm"

FracLeq(a, b) == a[1] * b[2] <= b[1] * a[2]
FracEq(a, b) == a[1] * b[2] = b[1] * a[2]

\* C4: in a finished Gemini run one progress value is reported per chunk,
\* whatever the chunks' outcomes; the value after chunk i of track t is
\* min(1, t/T + ((i+1)/chunksInTrack) * (1/T)); the values lie in [0,1], never
\* decrease, and with a single target track the last one is exactly 1.
C4_ProgressPerChunk ==
    GeminiRunDone =>
        LET P == EventsOfType("progress")
        IN /\ Len(P) = Len(AllChunks)
           /\ \A k \in 1..Len(P) :
                 /\ k <= Len(AllChunks) =>
                       LET N == NumChunks(tracks[AllChunks[k][2]].notes)
                       IN FracEq(P[k].val,
                                 ClampProgress(AllChunks[k][1] * N + AllChunks[k][3],
                                               N * Len(target)))
                 /\ FracLeq(Zero, P[k].val) /\ FracLeq(P[k].val, One)
                 /\ k > 1 => FracLeq(P[k - 1].val, P[k].val)
           /\ (Len(target) = 1 /\ Len(AllChunks) >= 1) =>
                 (P # <<>> /\ FracEq(P[Len(P)].val, One))

\* C8: between the generation request of one chunk and the request of the
\* next chunk exactly one delay (sleep) occurs, whether the earlier chunk
\* succeeded or failed.
C8_DelayBetweenRequests ==
    \A a \in 1..Len(events), b \in 1..Len(events) :
        ( /\ a < b
          /\ events[a].type = "request"
          /\ events[b].type = "request"
          /\ \A k \in (a + 1)..(b - 1) : events[k].type # "request" ) =>
        Cardinality({k \in (a + 1)..(b - 1) : events[k].type = "sleep"}) = 1

C9_StepProp ==
    (pc = "gemini" /\ resp'.kind = "text" /\ ~ParseRaises(resp'.text)) =>
        LET t  == target[inst_idx + 1]
            lo == pos * ChunkSize + 1
            hi == Min((pos + 1) * ChunkSize, Len(tracks[t].notes))
            V  == ParseVelocities(resp'.text)
        IN /\ \A tt \in 1..Len(tracks) :
                 /\ tracks'[tt].name = tracks[tt].name
                 /\ tracks'[tt].is_drum = tracks[tt].is_drum
                 /\ Len(tracks'[tt].notes) = Len(tracks[tt].notes)
           /\ \A id \in NoteIds :
                 LET old == tracks[id[1]].notes[id[2]]
                     new == tracks'[id[1]].notes[id[2]]
                     j   == id[2] - lo + 1
                 IN /\ new.pitch = old.pitch
                    /\ new.start = old.start
                    /\ new.end = old.end
                    /\ new.velocity =
                         IF id[1] = t /\ id[2] >= lo /\ id[2] <= hi /\ j <= Len(V)
                         THEN (IF V[j] < MinVel THEN MinVel
                               ELSE IF V[j] > MaxVel THEN MaxVel ELSE V[j])
                         ELSE old.velocity

\* C9: when a chunk's call succeeds and the text parses to V, note j of the
\* chunk gets velocity clamp(V[j], 1, 127) for j < min(len(V), len(chunk)),
\* the chunk's other notes keep their velocity, surplus values touch no note
\* of another chunk or track, and no pitch, start or end changes.
C9_SuccessApplies == [][C9_StepProp]_vars

LastRequest == EventsOfType("request")[Len(EventsOfType("request"))]

\* the answer "200" to a chunk of chunk_size notes: the first note is clamped
\* to 127 and the second keeps the velocity it had
C9_Witness ==
    /\ resp = [kind |-> "text", text |-> <<"2", "0", "0">>]
    /\ EventsOfType("request") # <<>>
    /\ events[Len(events)].type = "sleep"
    /\ LastRequest.chunk = 1
    /\ Len(tracks[LastRequest.track].notes) >= ChunkSize
    /\ orig[LastRequest.track].notes[1].velocity # MaxVel
    /\ tracks[LastRequest.track].notes[1].velocity = MaxVel
    /\ tracks[LastRequest.track].notes[2] = orig[LastRequest.track].notes[2]

\* C10: when the call returns text from which no integer can be parsed, a
\* warning is emitted for that chunk and the statistical humanizer is applied
\* to every note of the chunk, as when the call raises.
C10_MalformedFallsBack ==
    (resp.kind = "text" /\ ~ParseRaises(resp.text)
       /\ ParseVelocities(resp.text) = <<>>) =>
        /\ CountAt("warning", LastRequest.track, LastRequest.chunk) >= 1
        /\ \A n \in 1..Len(tracks[LastRequest.track].notes) :
              ChunkOf(n) = LastRequest.chunk =>
                  calls[LastRequest.track][n] # <<>>

====
